---- MODULE Spec2Model ----
(***************************************************************************)
(* Credential lifecycle and connection supervision of the Twitch subdays   *)
(* bot (OAuth variant, with the PostgreSQL credential store of db.js).     *)
(*                                                                         *)
(* The program is a single-threaded Node.js process.  Every async function *)
(* is a task whose position (pc) is the await it is suspended at.  An      *)
(* environment step (database reply, provider reply, transport event) is   *)
(* one macrotask: it runs the synchronous event handlers and settles the   *)
(* promises involved; the continuation of every settled await is queued on *)
(* microq and runs, in order, before the next macrotask.                   *)
(***************************************************************************)
EXTENDS Integers, Sequences, FiniteSets, TLC

\* ---------------------------------------------------------------- bounds
MaxCallbacks == 2      \* reconnection-timer callbacks in flight at once
MaxOverlap == 1        \* of those, in flight at once where SIGTERM or the history counters are in play
MaxTimers == 1         \* reconnection timers pending at once
MaxTransports == 1     \* tmi clients alive (not yet closed) at once
MaxSpare == 1          \* further tmi clients alive at once where overlapping callbacks build them
MaxTicks == 1          \* minutes of wall-clock time that pass
MaxStates == 2         \* authorization attempts started
MaxHttp == 1           \* callback handlers in flight at once
MaxUsers == 2          \* identities the provider may report
MaxWaits == 2          \* ten-minute waits between HTTP requests
MaxIssued == 2         \* tokens the provider issues
CountCap == 6          \* cap of the history counters
MaxSyncTicks == 4      \* firings of the Google-Sheets variant's sync interval
MaxChatters == 2        \* chat participants
MaxChat == 1            \* onMessageHandler calls in flight at once
MaxChatSpare == 1       \* further calls in flight at once where overlapping handlers are examined
MaxPending == 2        \* reconnection timers of bot.js's static client pending at once

\* ------------------------------------------------------ program constants
MAX_RECONNECT_ATTEMPTS == 5
SYNC_INTERVAL == 5 * 60 * 1000
Minute == 60 * 1000
NullTime == -1         \* expires_at IS NULL
NullRefresh == 0       \* refresh_token IS NULL / absent from a response
NoClient == 0          \* let client = null

Main == 0
Callbacks == 1 .. MaxCallbacks
Sig == MaxCallbacks + 1
Tasks == 0 .. (MaxCallbacks + 1)
Slots == 1 .. (MaxTransports + MaxSpare)
BotUser == 1
Usernames == 1 .. MaxUsers
StateVals == 1 .. MaxStates
NoState == 0           \* req.query.state is missing
Handlers == 1 .. MaxHttp
ExpiresInChoices == {360}      \* expires_in of a provider response, seconds
GrantedScope == "chat:read chat:edit"
Chatters == 1 .. MaxChatters
Channel == 1            \* the chatter whose login is the channel's name
ChatHandlers == 1 .. (MaxChat + MaxChatSpare)
NoBadge == -1           \* context.badges has no such badge
Messages == {<<"%", "a">>, <<" ", "%", "a">>, <<"h", "i">>}
OldToken == 1           \* the token values an earlier run stored
NewToken(n) == n + 2    \* the (n+1)-th token value the provider issues in this run

VARIABLES
  now,                 \* Date.now(), milliseconds
  cfg,                 \* process.env: TWITCH_CLIENT_ID / TWITCH_CLIENT_SECRET set
  tokens,              \* table twitch_oauth_tokens, by username
  nextId,              \* the SERIAL sequence of twitch_oauth_tokens.id
  poolEnding,          \* pool.end() has been called
  issued,              \* tokens issued by the identity provider so far
  client,              \* let client
  tstate,              \* state of each tmi client's socket
  tcred,               \* identity each tmi client was constructed with
  reconnectAttempts,   \* let reconnectAttempts
  timers,              \* pending setTimeout(..., RECONNECT_DELAY) callbacks
  task,                \* main(), the timer callbacks, the SIGTERM handler
  microq,              \* continuations ready to run (promise job queue)
  exited,              \* process.exit code, "no" while running
  attemptsSinceConnected,    \* history: transports built by timer callbacks
  disconnectsSinceConnected, \* history: 'disconnected' events delivered
  lateConstruct,             \* history: a callback built a transport after SIGTERM
  lastRefresh,               \* history: the last refresh getValidToken returned from
  lastCheck,                 \* history: what the last getValidToken() read and decided
  observe,                   \* the two history counters are recorded in this behaviour
  oauthStates,         \* const oauthStates = new Map(): state -> timestamp
  nextState,           \* the next value crypto.randomBytes yields (never repeated)
  http,                \* /auth/twitch/callback handlers suspended at an await
  consumed,            \* history: state values that passed validation
  lastCallback,        \* history: the last callback request and its verdict
  lastInitiate,        \* history: the last GET /auth/twitch and whether it redirected
  lastStatus,          \* history: the last answer of GET /auth/status
  subscriber_commands, \* table subscriber_commands, by name
  cachedRowsMap,       \* let cachedRowsMap = new Map(): name -> {value, tier}
  chat,                \* onMessageHandler calls suspended at await upsertCommand()
  lastChat,            \* history: what the last onMessageHandler call logged
  needsSync,           \* Google-Sheets variant: let needsSync
  lastSyncTime,        \* Google-Sheets variant: let lastSyncTime
  sheetCache,          \* Google-Sheets variant: let cachedRowsMap, name -> {value, tier}
  sheet,               \* Google-Sheets variant: rows of doc.sheetsByIndex[1], by name
  syncRun,             \* Google-Sheets variant: main() loading, or syncCache() at an await
  liveCap              \* tmi clients the behaviour lets be alive at once (fixed by Init)

vars == <<now, cfg, tokens, nextId, poolEnding, issued, client, tstate, tcred,
          reconnectAttempts, timers, task, microq, exited,
          attemptsSinceConnected, disconnectsSinceConnected, lateConstruct,
          lastRefresh, lastCheck, observe,
          oauthStates, nextState, http, consumed, lastCallback, lastInitiate, lastStatus,
          subscriber_commands, cachedRowsMap, chat, lastChat,
          needsSync, lastSyncTime, sheetCache, sheet, syncRun, liveCap>>

\* ------------------------------------------------------------- data model
NoRow == [id |-> 0, username |-> 0, access_token |-> 0,
          refresh_token |-> NullRefresh, expires_at |-> NullTime, scope |-> ""]
NoRefreshed == [access_token |-> 0, refresh_token |-> NullRefresh, expires_in |-> 0]
NoCred == [username |-> 0, access_token |-> 0]
NoRefreshRecord == [valid |-> FALSE, read |-> NoRow, provided |-> NullRefresh,
                    access |-> 0, expires_in |-> 0, at |-> 0,
                    returned |-> NoRow, persisted |-> NoRow]
NoCommand == [message |-> <<>>, tier |-> ""]     \* no row of that name
EmptyCommands == [u \in Chatters |-> NoCommand]
NoEntry == [value |-> <<>>, tier |-> ""]         \* cachedRowsMap.get(name) is undefined
EmptyCache == [u \in Chatters |-> NoEntry]
\* the context tmi passes with a message: a viewer, a subscriber with a
\* tier-3 badge, a moderator, a sender with the broadcaster badge
Viewer == [subscriber |-> FALSE,
           badges |-> [broadcaster |-> FALSE, moderator |-> FALSE, subscriber |-> NoBadge]]
Contexts ==
  {Viewer,
   [Viewer EXCEPT !.subscriber = TRUE, !.badges.subscriber = 3000],
   [Viewer EXCEPT !.badges.moderator = TRUE],
   [Viewer EXCEPT !.badges.broadcaster = TRUE]}
\* row: what upsertCommand() returned; alone: no other call was in flight meanwhile
IdleChat == [pc |-> "idle", user |-> 0, msg |-> <<>>, tier |-> "", wake |-> "",
             row |-> NoCommand, alone |-> TRUE]
NoCheck == [valid |-> FALSE, none |-> FALSE, expires_at |-> NullTime, at |-> 0,
            result |-> FALSE]
IdleHandler == [pc |-> "idle", access_token |-> 0, refresh_token |-> NullRefresh,
                expires_in |-> 0, scope |-> "", login |-> 0, exp |-> NullTime]
NoCallback == [verdict |-> "", replay |-> FALSE]
NoStatus == [status |-> 0, authenticated |-> FALSE, username |-> 0, expires_at |-> NullTime,
             is_expired |-> FALSE, scope |-> ""]
IdleTask == [pc |-> "idle", wake |-> "", err |-> "", tok |-> NoRow,
             data |-> NoRefreshed, at |-> 0, exp |-> NullTime, rt |-> NoClient]

Min(S) == CHOOSE x \in S : \A y \in S : x <= y
Bump(n) == IF observe /\ n < CountCap THEN n + 1 ELSE n

\* getTwitchToken: SELECT ... ORDER BY id DESC LIMIT 1
getTwitchToken(tbl) ==
  LET present == {u \in DOMAIN tbl : tbl[u].id # 0}
  IN IF present = {} THEN NoRow
     ELSE tbl[CHOOSE u \in present : \A v \in present : tbl[v].id <= tbl[u].id]

\* the usernames that have a row in twitch_oauth_tokens (username UNIQUE NOT NULL)
Records(tbl) == {u \in DOMAIN tbl : tbl[u].id # 0}

\* an UPDATE that leaves expires_at as it was
updateTwitchToken_KeepExpiry(tbl, username, accessToken, refreshToken, expiresAt) ==
  [u \in DOMAIN tbl |->
     IF u = username /\ tbl[u].id # 0
     THEN [tbl[u] EXCEPT !.access_token = accessToken,
                         !.refresh_token = IF refreshToken # NullRefresh
                                           THEN refreshToken ELSE @]
     ELSE tbl[u]]

\* updateTwitchToken: UPDATE ... SET access_token, refresh_token = COALESCE($3, refresh_token),
\* expires_at WHERE username = $1
updateTwitchToken(tbl, username, accessToken, refreshToken, expiresAt) ==
  [u \in DOMAIN tbl |->
     IF u = username /\ tbl[u].id # 0
     THEN [tbl[u] EXCEPT !.access_token = accessToken,
                         !.refresh_token = IF refreshToken # NullRefresh
                                           THEN refreshToken ELSE @,
                         !.expires_at = expiresAt]
     ELSE tbl[u]]

isTokenExpired(expiresAt, t) ==
  IF expiresAt = NullTime THEN TRUE
  ELSE expiresAt - t < 5 * 60 * 1000

\* a result that takes data.refresh_token without the fallback
refreshResult_NoFallback(data, refreshToken) ==
  [access_token |-> data.access_token,
   refresh_token |-> data.refresh_token,
   expires_in |-> data.expires_in]

\* refreshAccessToken's result: data.refresh_token || refreshToken
refreshResult(data, refreshToken) ==
  [access_token |-> data.access_token,
   refresh_token |-> IF data.refresh_token # NullRefresh
                     THEN data.refresh_token ELSE refreshToken,
   expires_in |-> data.expires_in]

\* main()'s catch: error.message.includes('token') || includes('authentication')
MentionsToken(kind) == kind \in {"no_refresh", "refresh_rejected_token", "db_auth"}

Running == exited = "no"
Quiet == microq = <<>>
\* a closed client that `client` no longer refers to is garbage: nothing in the
\* program can reach it, and its slot is free again; initializeClient() drops
\* the reference it overwrites
FreeSlots == {c \in 1 .. liveCap : tstate[c] = "none" \/ (c = client /\ tstate[c] = "closed")}
Closed(c) == IF c = client THEN "closed" ELSE "none"
Settle(ts, cr) == [c \in Slots |-> IF ts[c] = "none" THEN NoCred ELSE cr[c]]
Closable == {"connecting", "open", "closing"}
InFlight == {i \in Callbacks : task[i].pc # "idle"}
QueryInFlight == \E t \in Tasks : task[t].pc \in {"getTok", "update", "initdb"} /\ task[t].wake = ""

\* the 'disconnected' handler: if (reconnectAttempts < MAX_RECONNECT_ATTEMPTS) setTimeout(...)
onDisconnected(attempts, tm) ==
  IF attempts < MAX_RECONNECT_ATTEMPTS THEN tm + 1 ELSE tm
CanDeliverDisconnected == reconnectAttempts >= MAX_RECONNECT_ATTEMPTS \/ timers < MaxTimers

Orderings(S) == {s \in [1 .. Cardinality(S) -> S] :
                   \A i, j \in 1 .. Cardinality(S) : i # j => s[i] # s[j]}
Wake(tk, S, w, e) ==
  [t \in Tasks |-> IF t \in S THEN [tk[t] EXCEPT !.wake = w, !.err = e] ELSE tk[t]]
ConnWaiters(c) == {t \in Tasks : task[t].pc = "conn" /\ task[t].rt = c /\ task[t].wake = ""}
DiscWaiters(c) == {t \in Tasks : task[t].pc = "disc" /\ task[t].rt = c /\ task[t].wake = ""}

\* String.prototype.startsWith
startsWith(msg, prefix) ==
  Len(msg) >= Len(prefix) /\ SubSeq(msg, 1, Len(prefix)) = prefix

getSubscriberTier(badge) ==
  IF badge = NoBadge THEN "1"
  ELSE IF badge >= 3000 THEN "3"
  ELSE IF badge >= 2000 THEN "2"
  ELSE "1"

\* badgeInfo?.broadcaster === '1' || user.toLowerCase() === channelName; tmi
\* delivers context.username as the lower-case login
isBroadcaster(broadcasterBadge, user) == broadcasterBadge \/ user = Channel

\* a handler that lets every sender use % commands
canUseCommand_Everyone(subscriber, broadcaster, mod) == TRUE

\* subscriber || isBroadcaster || isMod
canUseCommand(subscriber, broadcaster, mod) == subscriber \/ broadcaster \/ mod

\* upsertCommand: INSERT ... ON CONFLICT (name) DO UPDATE SET message, tier
upsertCommand(tbl, name, message, tier) ==
  [tbl EXCEPT ![name] = [message |-> message, tier |-> tier]]

\* a cache write that records the default tier
cacheSet_DefaultTier(cache, target, result) ==
  [cache EXCEPT ![target] = [value |-> result.message, tier |-> "1"]]

\* cachedRowsMap.set(target, {value: result.message, tier: result.tier})
cacheSet(cache, target, result) ==
  [cache EXCEPT ![target] = [value |-> result.message, tier |-> result.tier]]

\* cacheRows: cachedRowsMap.set(row.name, {value: row.message, tier: row.tier || "1"})
cacheRows(cache, rows) ==
  [u \in DOMAIN cache |->
     IF rows[u] # NoCommand
     THEN [value |-> rows[u].message,
           tier |-> IF rows[u].tier = "" THEN "1" ELSE rows[u].tier]
     ELSE cache[u]]

storeVars == <<tokens, nextId>>
authVars == <<oauthStates, nextState, http, consumed, lastCallback, lastInitiate,
              lastStatus>>
chatVars == <<subscriber_commands, cachedRowsMap, chat, lastChat>>
sheetVars == <<needsSync, lastSyncTime, sheetCache, sheet, syncRun>>
histVars == <<attemptsSinceConnected, disconnectsSinceConnected, lateConstruct, lastRefresh,
              lastCheck, observe>>

\* ------------------------------------------------------------------ Init
InitialRows ==
  {NoRow} \cup
  {[id |-> 1, username |-> BotUser, access_token |-> OldToken, refresh_token |-> r,
    expires_at |-> e, scope |-> GrantedScope] :
     r \in {NullRefresh, OldToken}, e \in {NullTime, Minute, 6 * Minute}}

\* the process has loaded its modules and called main(), which is at mainPc;
\* the database holds whatever an earlier run left
Started(rows, configs, mainPc, stored) ==
  /\ now = 0
  /\ cfg \in configs
  /\ \E row \in rows :
       /\ tokens = [u \in Usernames |-> IF u = BotUser THEN row ELSE NoRow]
       /\ nextId = IF row = NoRow THEN 1 ELSE 2
  /\ issued = 0
  /\ poolEnding = FALSE
  /\ client = NoClient
  /\ tstate = [c \in Slots |-> "none"]
  /\ tcred = [c \in Slots |-> NoCred]
  /\ reconnectAttempts = 0
  /\ timers = 0
  /\ task = [t \in Tasks |-> IF t = Main THEN [IdleTask EXCEPT !.pc = mainPc] ELSE IdleTask]
  /\ microq = <<>>
  /\ exited = "no"
  /\ attemptsSinceConnected = 0
  /\ disconnectsSinceConnected = 0
  /\ lateConstruct = FALSE
  /\ lastRefresh = NoRefreshRecord
  /\ lastCheck = NoCheck
  /\ oauthStates = [s \in StateVals |-> NullTime]
  /\ nextState = 1
  /\ http = [h \in Handlers |-> IdleHandler]
  /\ consumed = {}
  /\ lastCallback = NoCallback
  /\ lastInitiate = ""
  /\ lastStatus = NoStatus
  /\ subscriber_commands \in stored
  /\ cachedRowsMap = EmptyCache
  /\ chat = [k \in ChatHandlers |-> IdleChat]
  /\ lastChat = ""
  /\ needsSync = FALSE
  /\ lastSyncTime = now
  /\ sheetCache = EmptyCache
  /\ syncRun = [pc |-> "load", changes |-> {}]

Configs == {[id |-> TRUE, secret |-> TRUE], [id |-> TRUE, secret |-> FALSE]}

Init ==
  /\ Started(InitialRows, Configs, "initdb", {EmptyCommands})
  /\ observe = FALSE
  /\ sheet = EmptyCommands
  /\ liveCap = MaxTransports

\* ------------------------------------------- continuations of getValidToken
\* initializeClient(tokenData); setupReconnectionHandlers(); await client.connect()
Construct(t, td, q) ==
  /\ FreeSlots # {}
  /\ LET c == Min(FreeSlots) IN
       /\ client' = c
       /\ tstate' = [s \in Slots |-> IF s = c THEN "connecting"
                                     ELSE IF s = client /\ tstate[s] = "closed" THEN "none"
                                     ELSE tstate[s]]
       /\ tcred' = Settle(tstate', [tcred EXCEPT ![c] = [username |-> td.username,
                                                         access_token |-> td.access_token]])
       /\ task' = [task EXCEPT ![t] = [IdleTask EXCEPT !.pc = "conn", !.rt = c]]
  /\ microq' = q
  /\ attemptsSinceConnected' = IF t \in Callbacks THEN Bump(attemptsSinceConnected)
                               ELSE attemptsSinceConnected
  /\ lateConstruct' = (lateConstruct \/ (t \in Callbacks /\ task[Sig].pc # "idle"))
  /\ UNCHANGED exited

\* the caller holds a credential: main builds the client, the timer callback
\* first awaits client.disconnect() on the client it replaces
AfterValid(t, td, q) ==
  IF t = Main \/ client = NoClient THEN Construct(t, td, q)
  ELSE IF tstate[client] \in Closable
  THEN /\ tstate' = [tstate EXCEPT ![client] = "closing"]
       /\ task' = [task EXCEPT ![t] = [IdleTask EXCEPT !.pc = "disc", !.tok = td,
                                                       !.rt = client]]
       /\ microq' = q
       /\ UNCHANGED <<client, tcred, exited, attemptsSinceConnected, lateConstruct>>
  ELSE /\ task' = [task EXCEPT ![t] = [IdleTask EXCEPT !.pc = "disc", !.tok = td,
                                                       !.wake = "err", !.err = "disconnect"]]
       /\ microq' = Append(q, t)
       /\ UNCHANGED <<client, tstate, tcred, exited, attemptsSinceConnected, lateConstruct>>

\* a catch block that carries on with the credential read from the store
AfterError_Swallow(t, kind, q) == AfterValid(t, task[t].tok, q)

\* an error reached the caller's catch block
AfterError(t, kind, q) ==
  /\ task' = [task EXCEPT ![t] = IF t = Main THEN [IdleTask EXCEPT !.pc = "done"]
                                 ELSE IdleTask]
  /\ microq' = q
  /\ exited' = IF t = Main /\ ~MentionsToken(kind) THEN "1" ELSE exited
  /\ UNCHANGED <<client, tstate, tcred, attemptsSinceConnected, lateConstruct>>

\* a getValidToken() that throws where it should return null
AfterNull_Throws(t, q) == AfterError(t, "no_credential", q)

\* getValidToken() returned null
AfterNull(t, q) ==
  /\ task' = [task EXCEPT ![t] = IF t = Main THEN [IdleTask EXCEPT !.pc = "done"] ELSE IdleTask]
  /\ microq' = q
  /\ UNCHANGED <<client, tstate, tcred, exited, attemptsSinceConnected, lateConstruct>>

\* await getTwitchToken(): pool.query rejects at once on a pool that is ending
StartGetValid(t, q) ==
  IF poolEnding
  THEN /\ task' = [task EXCEPT ![t] = [IdleTask EXCEPT !.pc = "getTok", !.wake = "err",
                                                       !.err = "db"]]
       /\ microq' = Append(q, t)
  ELSE /\ task' = [task EXCEPT ![t] = [IdleTask EXCEPT !.pc = "getTok"]]
       /\ microq' = q

Ready(t, pc) == Running /\ microq # <<>> /\ Head(microq) = t /\ task[t].pc = pc
Waiting(t, pc) == Running /\ Quiet /\ task[t].pc = pc /\ task[t].wake = ""

\* ------------------------------------------------------------- main()
\* authenticateAndLoad() settles: initDatabase() threw, or it succeeded and
\* cacheRows() loaded the cache or swallowed the error of getAllCommands()
InitDbDone ==
  /\ Waiting(Main, "initdb")
  /\ \E out \in {"ok", "db", "db_auth"} :
       /\ task' = [task EXCEPT ![Main].wake = IF out = "ok" THEN "ok" ELSE "err",
                               ![Main].err = IF out = "ok" THEN "" ELSE out]
       /\ IF out = "ok"
          THEN cachedRowsMap' \in {cacheRows(cachedRowsMap, subscriber_commands),
                                   cachedRowsMap}
          ELSE UNCHANGED cachedRowsMap
  /\ microq' = Append(microq, Main)
  /\ UNCHANGED <<now, cfg, storeVars, poolEnding, issued, client, tstate, tcred,
                 reconnectAttempts, timers, exited, histVars, authVars,
                 subscriber_commands, chat, lastChat, sheetVars, liveCap>>

ResumeInitDb ==
  /\ Ready(Main, "initdb")
  /\ IF task[Main].wake = "ok"
     THEN /\ StartGetValid(Main, Tail(microq))
          /\ UNCHANGED <<client, tstate, tcred, exited, attemptsSinceConnected, lateConstruct>>
     ELSE AfterError(Main, task[Main].err, Tail(microq))
  /\ UNCHANGED <<now, cfg, storeVars, poolEnding, issued, reconnectAttempts, timers,
                 disconnectsSinceConnected, lastRefresh, lastCheck, observe, authVars,
                 chatVars, sheetVars, liveCap>>

\* ------------------------------------------------------ getValidToken()
\* the SELECT of getTwitchToken() returns, or fails
DbReadDone(t) ==
  /\ Waiting(t, "getTok")
  /\ \E out \in {"ok", "db", "db_auth"} :
       task' = [task EXCEPT ![t].wake = IF out = "ok" THEN "ok" ELSE "err",
                            ![t].err = IF out = "ok" THEN "" ELSE out,
                            ![t].tok = IF out = "ok" THEN getTwitchToken(tokens) ELSE NoRow]
  /\ microq' = Append(microq, t)
  /\ UNCHANGED <<now, cfg, storeVars, poolEnding, issued, client, tstate, tcred,
                 reconnectAttempts, timers, exited, histVars, authVars, chatVars, sheetVars, liveCap>>

ResumeGetTok(t) ==
  /\ Ready(t, "getTok")
  /\ LET td == task[t].tok
         q == Tail(microq)
     IN IF task[t].wake = "err" THEN AfterError(t, task[t].err, q)
        ELSE IF td = NoRow THEN AfterNull(t, q)
        ELSE IF isTokenExpired(td.expires_at, now)
        THEN IF td.refresh_token = NullRefresh THEN AfterError(t, "no_refresh", q)
             ELSE IF ~cfg.id \/ ~cfg.secret THEN AfterError(t, "config", q)
             ELSE /\ task' = [task EXCEPT ![t] = [IdleTask EXCEPT !.pc = "refresh", !.tok = td]]
                  /\ microq' = q
                  /\ UNCHANGED <<client, tstate, tcred, exited, attemptsSinceConnected,
                                 lateConstruct>>
        ELSE AfterValid(t, td, q)
  /\ lastCheck' = IF task[t].wake = "ok" /\ task[t].tok # NoRow
                  THEN [valid |-> TRUE, none |-> FALSE,
                        expires_at |-> task[t].tok.expires_at, at |-> now,
                        result |-> isTokenExpired(task[t].tok.expires_at, now)]
                  ELSE IF task[t].wake = "ok" THEN [NoCheck EXCEPT !.none = TRUE]
                  ELSE lastCheck
  /\ UNCHANGED <<now, cfg, storeVars, poolEnding, issued, reconnectAttempts, timers,
                 disconnectsSinceConnected, lastRefresh, observe, authVars, chatVars,
                 sheetVars, liveCap>>

\* the provider answers the refresh_token grant: network failure, a non-success
\* status, or a new access token with or without a new refresh token
ProviderRefreshDone(t) ==
  /\ Waiting(t, "refresh")
  /\ \/ /\ \E kind \in {"fetch", "refresh_rejected", "refresh_rejected_token"} :
             task' = [task EXCEPT ![t].wake = "err", ![t].err = kind]
        /\ UNCHANGED issued
     \/ /\ issued < MaxIssued
        /\ issued' = issued + 1
        /\ \E r \in {NullRefresh, NewToken(issued)}, d \in ExpiresInChoices :
             task' = [task EXCEPT ![t].wake = "ok", ![t].at = now,
                                  ![t].data = [access_token |-> NewToken(issued),
                                               refresh_token |-> r, expires_in |-> d]]
  /\ microq' = Append(microq, t)
  /\ UNCHANGED <<now, cfg, storeVars, poolEnding, client, tstate, tcred,
                 reconnectAttempts, timers, exited, histVars, authVars, chatVars, sheetVars, liveCap>>

\* const expiresAt = new Date(Date.now() + refreshed.expires_in * 1000);
\* await updateTwitchToken(...)
ResumeRefresh(t) ==
  /\ Ready(t, "refresh")
  /\ LET q == Tail(microq)
         refreshed == refreshResult(task[t].data, task[t].tok.refresh_token)
     IN IF task[t].wake = "err" THEN AfterError(t, task[t].err, q)
        ELSE /\ IF poolEnding
                THEN /\ task' = [task EXCEPT ![t].pc = "update", ![t].wake = "err",
                                             ![t].err = "db",
                                             ![t].exp = now + refreshed.expires_in * 1000]
                     /\ microq' = Append(q, t)
                ELSE /\ task' = [task EXCEPT ![t].pc = "update", ![t].wake = "",
                                             ![t].exp = now + refreshed.expires_in * 1000]
                     /\ microq' = q
             /\ UNCHANGED <<client, tstate, tcred, exited, attemptsSinceConnected,
                            lateConstruct>>
  /\ UNCHANGED <<now, cfg, storeVars, poolEnding, issued, reconnectAttempts, timers,
                 disconnectsSinceConnected, lastRefresh, lastCheck, observe, authVars,
                 chatVars, sheetVars, liveCap>>

\* the UPDATE of updateTwitchToken() is applied, or fails
DbUpdateDone(t) ==
  /\ Waiting(t, "update")
  /\ LET refreshed == refreshResult(task[t].data, task[t].tok.refresh_token)
     IN \/ /\ tokens' = updateTwitchToken(tokens, task[t].tok.username,
                                          refreshed.access_token, refreshed.refresh_token,
                                          task[t].exp)
           /\ task' = [task EXCEPT ![t].wake = "ok"]
        \/ /\ \E kind \in {"db", "db_auth"} :
                task' = [task EXCEPT ![t].wake = "err", ![t].err = kind]
           /\ UNCHANGED tokens
  /\ microq' = Append(microq, t)
  /\ UNCHANGED <<now, cfg, nextId, poolEnding, issued, client, tstate, tcred,
                 reconnectAttempts, timers, exited, histVars, authVars, chatVars, sheetVars, liveCap>>

\* return { username, access_token, refresh_token, expires_at }
ResumeUpdate(t) ==
  /\ Ready(t, "update")
  /\ LET q == Tail(microq)
         refreshed == refreshResult(task[t].data, task[t].tok.refresh_token)
         returned == [NoRow EXCEPT !.username = task[t].tok.username,
                                   !.access_token = refreshed.access_token,
                                   !.refresh_token = refreshed.refresh_token,
                                   !.expires_at = task[t].exp]
     IN IF task[t].wake = "err"
        THEN AfterError(t, task[t].err, q) /\ UNCHANGED lastRefresh
        ELSE /\ AfterValid(t, returned, q)
             /\ lastRefresh' = [valid |-> TRUE, read |-> task[t].tok,
                                provided |-> task[t].data.refresh_token,
                                access |-> task[t].data.access_token,
                                expires_in |-> task[t].data.expires_in, at |-> task[t].at,
                                returned |-> returned,
                                persisted |-> tokens[task[t].tok.username]]
  /\ UNCHANGED <<now, cfg, storeVars, poolEnding, issued, reconnectAttempts, timers,
                 disconnectsSinceConnected, lastCheck, observe, authVars, chatVars,
                 sheetVars, liveCap>>

\* ------------------------------------------------- Connection Supervisor
\* a reconnection timer fires: the callback logs and awaits getValidToken()
TimerFire(limit) ==
  /\ Running /\ Quiet
  /\ timers > 0
  /\ Cardinality(InFlight) < limit
  /\ timers' = timers - 1
  /\ StartGetValid(Min(Callbacks \ InFlight), microq)
  /\ UNCHANGED <<now, cfg, storeVars, poolEnding, issued, client, tstate, tcred,
                 reconnectAttempts, exited, histVars, authVars, chatVars, sheetVars, liveCap>>

\* client.disconnect() settled (fulfilled, or rejected and ignored):
\* initializeClient(tokenData); setupReconnectionHandlers(); await client.connect()
ResumeDisc(i) ==
  /\ i \in Callbacks
  /\ Ready(i, "disc")
  /\ Construct(i, task[i].tok, Tail(microq))
  /\ UNCHANGED <<now, cfg, storeVars, poolEnding, issued, reconnectAttempts, timers,
                 disconnectsSinceConnected, lastRefresh, lastCheck, observe, authVars,
                 chatVars, sheetVars, liveCap>>

\* await client.connect() settled in the timer callback: reconnectAttempts++
\* when it resolved, the catch block when it rejected
ResumeConn(i) ==
  /\ i \in Callbacks
  /\ Ready(i, "conn")
  /\ reconnectAttempts' = IF task[i].wake = "ok" THEN reconnectAttempts + 1
                          ELSE reconnectAttempts
  /\ task' = [task EXCEPT ![i] = IdleTask]
  /\ microq' = Tail(microq)
  /\ UNCHANGED <<now, cfg, storeVars, poolEnding, issued, client, tstate, tcred,
                 timers, exited, histVars, authVars, chatVars, sheetVars, liveCap>>

\* await client.connect() settled in main(): done, or the catch block, where
\* the rejection reason is a string without .message
ResumeMainConn ==
  /\ Ready(Main, "conn")
  /\ task' = [task EXCEPT ![Main] = [IdleTask EXCEPT !.pc = "done"]]
  /\ exited' = IF task[Main].wake = "ok" THEN exited ELSE "1"
  /\ microq' = Tail(microq)
  /\ UNCHANGED <<now, cfg, storeVars, poolEnding, issued, client, tstate, tcred,
                 reconnectAttempts, timers, histVars, authVars, chatVars, sheetVars, liveCap>>

\* ---------------------------------------------- events of a tmi client
\* the server accepts the login: 'connected' handlers run, connect() resolves
ConnectOk(c) ==
  /\ Running /\ Quiet
  /\ tstate[c] = "connecting"
  /\ tstate' = [tstate EXCEPT ![c] = "open"]
  /\ reconnectAttempts' = 0
  /\ task' = Wake(task, ConnWaiters(c), "ok", "")
  /\ \E s \in Orderings(ConnWaiters(c)) : microq' = microq \o s
  /\ attemptsSinceConnected' = 0
  /\ disconnectsSinceConnected' = 0
  /\ UNCHANGED <<now, cfg, storeVars, poolEnding, issued, client, tcred, timers, exited,
                 lateConstruct, lastRefresh, lastCheck, observe, authVars, chatVars,
                 sheetVars, liveCap>>

\* the 'disconnected' handler runs once
EmitDisconnected ==
  /\ CanDeliverDisconnected
  /\ timers' = onDisconnected(reconnectAttempts, timers)
  /\ disconnectsSinceConnected' = Bump(disconnectsSinceConnected)

\* the socket fails while connecting: connect() rejects and 'disconnected' is
\* emitted; the socket's close event may still follow ("errored")
ConnectFail(c) ==
  /\ Running /\ Quiet
  /\ tstate[c] = "connecting"
  /\ \E nxt \in {"errored", Closed(c)} : tstate' = [tstate EXCEPT ![c] = nxt]
  /\ tcred' = Settle(tstate', tcred)
  /\ task' = Wake(task, ConnWaiters(c), "err", "connect")
  /\ \E s \in Orderings(ConnWaiters(c)) : microq' = microq \o s
  /\ EmitDisconnected
  /\ UNCHANGED <<now, cfg, storeVars, poolEnding, issued, client,
                 reconnectAttempts, exited, attemptsSinceConnected, lateConstruct,
                 lastRefresh, lastCheck, observe, authVars, chatVars, sheetVars, liveCap>>

\* an open connection is lost
Drop(c) ==
  /\ Running /\ Quiet
  /\ tstate[c] = "open"
  /\ \E nxt \in {"errored", Closed(c)} : tstate' = [tstate EXCEPT ![c] = nxt]
  /\ tcred' = Settle(tstate', tcred)
  /\ EmitDisconnected
  /\ UNCHANGED <<now, cfg, storeVars, poolEnding, issued, client,
                 reconnectAttempts, task, microq, exited, attemptsSinceConnected,
                 lateConstruct, lastRefresh, lastCheck, observe, authVars, chatVars,
                 sheetVars, liveCap>>

\* the close event of a socket that already reported an error:
\* 'disconnected' is emitted a second time
SocketClose(c) ==
  /\ Running /\ Quiet
  /\ tstate[c] = "errored"
  /\ tstate' = [tstate EXCEPT ![c] = Closed(c)]
  /\ tcred' = Settle(tstate', tcred)
  /\ EmitDisconnected
  /\ UNCHANGED <<now, cfg, storeVars, poolEnding, issued, client,
                 reconnectAttempts, task, microq, exited, attemptsSinceConnected,
                 lateConstruct, lastRefresh, lastCheck, observe, authVars, chatVars,
                 sheetVars, liveCap>>

\* the close requested by client.disconnect() completes: a pending connect()
\* rejects, every pending disconnect() resolves, 'disconnected' is emitted
CloseDone(c) ==
  /\ Running /\ Quiet
  /\ tstate[c] = "closing"
  /\ tstate' = [tstate EXCEPT ![c] = Closed(c)]
  /\ tcred' = Settle(tstate', tcred)
  /\ task' = Wake(Wake(task, ConnWaiters(c), "err", "connect"), DiscWaiters(c), "ok", "")
  /\ \E s1 \in Orderings(ConnWaiters(c)), s2 \in Orderings(DiscWaiters(c)) :
       microq' = microq \o s1 \o s2
  /\ EmitDisconnected
  /\ UNCHANGED <<now, cfg, storeVars, poolEnding, issued, client,
                 reconnectAttempts, exited, attemptsSinceConnected, lateConstruct,
                 lastRefresh, lastCheck, observe, authVars, chatVars, sheetVars, liveCap>>

\* ------------------------------------------------- process.on('SIGTERM')
Sigterm ==
  /\ Running /\ Quiet
  /\ task[Sig].pc = "idle"
  /\ IF client # NoClient
     THEN IF tstate[client] \in Closable
          THEN /\ tstate' = [tstate EXCEPT ![client] = "closing"]
               /\ task' = [task EXCEPT ![Sig] = [IdleTask EXCEPT !.pc = "disc", !.rt = client]]
               /\ UNCHANGED <<microq, poolEnding>>
          ELSE /\ task' = [task EXCEPT ![Sig] = [IdleTask EXCEPT !.pc = "disc", !.wake = "err",
                                                                 !.err = "disconnect"]]
               /\ microq' = Append(microq, Sig)
               /\ UNCHANGED <<tstate, poolEnding>>
     ELSE /\ poolEnding' = TRUE
          /\ task' = [task EXCEPT ![Sig] = [IdleTask EXCEPT !.pc = "poolend"]]
          /\ UNCHANGED <<tstate, microq>>
  /\ UNCHANGED <<now, cfg, storeVars, issued, client, tcred, reconnectAttempts, timers,
                 exited, histVars, authVars, chatVars, sheetVars, liveCap>>

\* await client.disconnect() settled: await pool.end(), or the catch block
ResumeSigDisc ==
  /\ Ready(Sig, "disc")
  /\ IF task[Sig].wake = "ok"
     THEN /\ poolEnding' = TRUE
          /\ task' = [task EXCEPT ![Sig] = [IdleTask EXCEPT !.pc = "poolend"]]
          /\ UNCHANGED exited
     ELSE /\ exited' = "1"
          /\ task' = [task EXCEPT ![Sig] = [IdleTask EXCEPT !.pc = "done"]]
          /\ UNCHANGED poolEnding
  /\ microq' = Tail(microq)
  /\ UNCHANGED <<now, cfg, storeVars, issued, client, tstate, tcred, reconnectAttempts,
                 timers, histVars, authVars, chatVars, sheetVars, liveCap>>

\* pool.end() settles once no query is in flight
PoolEndDone ==
  /\ Waiting(Sig, "poolend")
  /\ ~QueryInFlight
  /\ \E out \in {"ok", "err"} :
       task' = [task EXCEPT ![Sig].wake = out, ![Sig].err = IF out = "ok" THEN "" ELSE "db"]
  /\ microq' = Append(microq, Sig)
  /\ UNCHANGED <<now, cfg, storeVars, poolEnding, issued, client, tstate, tcred,
                 reconnectAttempts, timers, exited, histVars, authVars, chatVars, sheetVars, liveCap>>

\* process.exit(0), or process.exit(1) from the catch block
ResumeSigPoolEnd ==
  /\ Ready(Sig, "poolend")
  /\ exited' = IF task[Sig].wake = "ok" THEN "0" ELSE "1"
  /\ task' = [task EXCEPT ![Sig] = [IdleTask EXCEPT !.pc = "done"]]
  /\ microq' = Tail(microq)
  /\ UNCHANGED <<now, cfg, storeVars, poolEnding, issued, client, tstate, tcred,
                 reconnectAttempts, timers, histVars, authVars, chatVars, sheetVars, liveCap>>

\* ------------------------------------------------------------------ time
Tick ==
  /\ Running /\ Quiet
  /\ now < MaxTicks * Minute
  /\ now' = now + Minute
  /\ UNCHANGED <<cfg, storeVars, poolEnding, issued, client, tstate, tcred,
                 reconnectAttempts, timers, task, microq, exited, histVars, authVars,
                 chatVars, sheetVars, liveCap>>

GetValidCallers == {Main} \cup Callbacks

Next ==
  \/ InitDbDone
  \/ ResumeInitDb
  \/ \E t \in GetValidCallers : DbReadDone(t)
  \/ \E t \in GetValidCallers : ResumeGetTok(t)
  \/ \E t \in GetValidCallers : ProviderRefreshDone(t)
  \/ \E t \in GetValidCallers : ResumeRefresh(t)
  \/ \E t \in GetValidCallers : DbUpdateDone(t)
  \/ \E t \in GetValidCallers : ResumeUpdate(t)
  \/ TimerFire(MaxOverlap)
  \/ \E i \in Callbacks : ResumeDisc(i)
  \/ \E i \in Callbacks : ResumeConn(i)
  \/ ResumeMainConn
  \/ \E c \in Slots : ConnectOk(c)
  \/ \E c \in Slots : ConnectFail(c)
  \/ \E c \in Slots : Drop(c)
  \/ \E c \in Slots : SocketClose(c)
  \/ \E c \in Slots : CloseDone(c)
  \/ Sigterm
  \/ ResumeSigDisc
  \/ PoolEndDone
  \/ ResumeSigPoolEnd
  \/ Tick

Spec == Init /\ [][Next]_vars

\* ------------------------------------------------ Authorization Flow Handler
\* a cleanup loop that deletes nothing
purgeStates_KeepAll(states, t) == states

\* the cleanup loop of GET /auth/twitch: delete entries with timestamp < tenMinutesAgo
purgeStates(states, t) ==
  [s \in DOMAIN states |->
     IF states[s] # NullTime /\ states[s] < t - 10 * 60 * 1000 THEN NullTime ELSE states[s]]

\* a callback that leaves the used state registered
consumeState_Keep(states, s) == states

\* oauthStates.delete(state)
consumeState(states, s) == [states EXCEPT ![s] = NullTime]

\* checks that ignore the provider-reported error
CallbackVerdict_NoErrorCheck(error, code, state, states) ==
  IF ~code \/ state = NoState THEN "missing"
  ELSE IF states[state] = NullTime THEN "invalid_state"
  ELSE "accepted"

\* the checks of the callback before the exchange, in the order of the code
CallbackVerdict(error, code, state, states) ==
  IF error THEN "provider_error"
  ELSE IF ~code \/ state = NoState THEN "missing"
  ELSE IF states[state] = NullTime THEN "invalid_state"
  ELSE "accepted"

\* an upsert whose conflict branch keeps a stored refresh token when none is given
saveTwitchToken_Coalesce(tbl, id, username, accessToken, refreshToken, expiresAt, scope) ==
  [tbl EXCEPT ![username] =
     [id |-> IF tbl[username].id # 0 THEN tbl[username].id ELSE id,
      username |-> username, access_token |-> accessToken,
      refresh_token |-> IF refreshToken # NullRefresh THEN refreshToken
                        ELSE tbl[username].refresh_token,
      expires_at |-> expiresAt, scope |-> scope]]

\* saveTwitchToken: INSERT ... ON CONFLICT (username) DO UPDATE
saveTwitchToken(tbl, id, username, accessToken, refreshToken, expiresAt, scope) ==
  [tbl EXCEPT ![username] =
     [id |-> IF tbl[username].id # 0 THEN tbl[username].id ELSE id,
      username |-> username, access_token |-> accessToken,
      refresh_token |-> refreshToken, expires_at |-> expiresAt, scope |-> scope]]

\* GET /auth/twitch
AuthInitiate ==
  /\ Running /\ Quiet
  /\ IF ~cfg.id
     THEN /\ lastInitiate' = "unconfigured"
          /\ UNCHANGED <<oauthStates, nextState>>
     ELSE /\ nextState <= MaxStates
          /\ oauthStates' = purgeStates([oauthStates EXCEPT ![nextState] = now], now)
          /\ nextState' = nextState + 1
          /\ lastInitiate' = "redirected"
  /\ UNCHANGED <<now, cfg, storeVars, poolEnding, issued, client, tstate, tcred,
                 reconnectAttempts, timers, task, microq, exited, histVars,
                 http, consumed, lastCallback, lastStatus, chatVars,
                 sheetVars, liveCap>>

\* GET /auth/twitch/callback, up to its first await
AuthCallback(error, code, state) ==
  /\ Running /\ Quiet
  /\ LET verdict == CallbackVerdict(error, code, state, oauthStates)
         idle == {g \in Handlers : http[g].pc = "idle"}
     IN
       /\ lastCallback' = [verdict |-> verdict, replay |-> state \in consumed]
       /\ IF verdict = "accepted"
          THEN /\ oauthStates' = consumeState(oauthStates, state)
               /\ consumed' = consumed \cup {state}
               /\ IF ~cfg.id \/ ~cfg.secret THEN UNCHANGED http
                  ELSE /\ idle # {}
                       /\ http' = [http EXCEPT ![Min(idle)] = [IdleHandler EXCEPT !.pc = "exch"]]
          ELSE UNCHANGED <<oauthStates, consumed, http>>
  /\ UNCHANGED <<now, cfg, storeVars, poolEnding, issued, client, tstate, tcred,
                 reconnectAttempts, timers, task, microq, exited, histVars,
                 nextState, lastInitiate, lastStatus, chatVars, sheetVars, liveCap>>

\* the token endpoint answers the authorization_code grant; on success the
\* handler calls the validate endpoint
ExchangeDone(h) ==
  /\ Running /\ Quiet
  /\ http[h].pc = "exch"
  /\ \/ /\ http' = [http EXCEPT ![h] = IdleHandler]
        /\ UNCHANGED issued
     \/ /\ issued < MaxIssued
        /\ issued' = issued + 1
        /\ \E r \in {NullRefresh, NewToken(issued)}, d \in ExpiresInChoices :
             http' = [http EXCEPT ![h] = [IdleHandler EXCEPT !.pc = "validate",
                                            !.access_token = NewToken(issued),
                                            !.refresh_token = r, !.expires_in = d,
                                            !.scope = GrantedScope]]
  /\ UNCHANGED <<now, cfg, storeVars, poolEnding, client, tstate, tcred,
                 reconnectAttempts, timers, task, microq, exited, histVars,
                 oauthStates, nextState, consumed, lastCallback, lastInitiate, lastStatus,
                 chatVars, sheetVars, liveCap>>

\* the validate endpoint answers; on success the handler computes expiresAt
\* and awaits saveTwitchToken()
ValidateDone(h) ==
  /\ Running /\ Quiet
  /\ http[h].pc = "validate"
  /\ \/ http' = [http EXCEPT ![h] = IdleHandler]
     \/ \E u \in Usernames :
          http' = [http EXCEPT ![h] =
                     IF poolEnding THEN IdleHandler
                     ELSE [@ EXCEPT !.pc = "save", !.login = u,
                                    !.exp = now + http[h].expires_in * 1000]]
  /\ UNCHANGED <<now, cfg, storeVars, poolEnding, issued, client, tstate, tcred,
                 reconnectAttempts, timers, task, microq, exited, histVars,
                 oauthStates, nextState, consumed, lastCallback, lastInitiate, lastStatus,
                 chatVars, sheetVars, liveCap>>

\* the upsert of saveTwitchToken() is applied, or fails
SaveDone(h) ==
  /\ Running /\ Quiet
  /\ http[h].pc = "save"
  /\ \/ /\ tokens' = saveTwitchToken(tokens, nextId, http[h].login, http[h].access_token,
                                     http[h].refresh_token, http[h].exp, http[h].scope)
        /\ nextId' = nextId + 1
     \/ UNCHANGED <<tokens, nextId>>
  /\ http' = [http EXCEPT ![h] = IdleHandler]
  /\ UNCHANGED <<now, cfg, poolEnding, issued, client, tstate, tcred,
                 reconnectAttempts, timers, task, microq, exited, histVars,
                 oauthStates, nextState, consumed, lastCallback, lastInitiate, lastStatus,
                 chatVars, sheetVars, liveCap>>

\* ten minutes pass: the lifetime the cleanup loop gives a state
Wait ==
  /\ Running /\ Quiet
  /\ now < MaxWaits * 10 * Minute
  /\ now' = now + 10 * Minute
  /\ UNCHANGED <<cfg, storeVars, poolEnding, issued, client, tstate, tcred,
                 reconnectAttempts, timers, task, microq, exited, histVars, authVars,
                 chatVars, sheetVars, liveCap>>

\* the authorization endpoints once main() has found no stored credential and
\* returned ("Bot is running and waiting for authentication..."): no client
\* exists, no SIGTERM arrives, and the requests follow one another within the
\* same instant
InitAuth ==
  /\ Started({NoRow}, Configs \cup {[id |-> FALSE, secret |-> FALSE]}, "done", {EmptyCommands})
  /\ observe = FALSE
  /\ sheet = EmptyCommands
  /\ liveCap = MaxTransports

NextAuth ==
  \/ AuthInitiate
  \/ \E error, code \in BOOLEAN, state \in {NoState} \cup StateVals :
       AuthCallback(error, code, state)
  \/ \E h \in Handlers : ExchangeDone(h)
  \/ \E h \in Handlers : ValidateDone(h)
  \/ \E h \in Handlers : SaveDone(h)

SpecAuth == InitAuth /\ [][NextAuth]_vars

\* the state set over time: minutes pass between the requests, and the
\* provider rejects every exchange
NextStates ==
  \/ AuthInitiate
  \/ \E error, code \in BOOLEAN, state \in {NoState} \cup StateVals :
       AuthCallback(error, code, state)
  \/ \E h \in Handlers : ExchangeDone(h) /\ UNCHANGED issued
  \/ Wait

SpecStates == InitAuth /\ [][NextStates]_vars

\* the credential store under both of its writers: main() refreshes the
\* credential an earlier run left without an expiry while the authorization
\* endpoints serve requests; every callback carries a code and a registered
\* state, the connection, once made, is not lost and no SIGTERM arrives
InitStore ==
  /\ Started({row \in InitialRows : row # NoRow /\ row.refresh_token # NullRefresh
                                     /\ row.expires_at = NullTime},
             {[id |-> TRUE, secret |-> TRUE]}, "initdb", {EmptyCommands})
  /\ observe = FALSE
  /\ sheet = EmptyCommands
  /\ liveCap = MaxTransports

NextStore ==
  \/ InitDbDone
  \/ ResumeInitDb
  \/ DbReadDone(Main)
  \/ ResumeGetTok(Main)
  \/ ProviderRefreshDone(Main)
  \/ ResumeRefresh(Main)
  \/ DbUpdateDone(Main)
  \/ ResumeUpdate(Main)
  \/ ResumeMainConn
  \/ \E c \in Slots : ConnectOk(c)
  \/ \E c \in Slots : ConnectFail(c)
  \/ AuthInitiate
  \/ \E state \in StateVals :
       oauthStates[state] # NullTime /\ AuthCallback(FALSE, TRUE, state)
  \/ \E h \in Handlers : ExchangeDone(h)
  \/ \E h \in Handlers : ValidateDone(h)
  \/ \E h \in Handlers : SaveDone(h)

SpecStore == InitStore /\ [][NextStore]_vars

\* the supervisor with the token manager over a longer time: the stored
\* credential is valid at startup and expires while the bot runs, and the
\* reconnection callbacks overlap as far as the callbacks allow; no SIGTERM
InitRace ==
  /\ Started({[id |-> 1, username |-> BotUser, access_token |-> OldToken,
               refresh_token |-> OldToken, expires_at |-> 6 * Minute,
               scope |-> GrantedScope]},
             {[id |-> TRUE, secret |-> TRUE]}, "initdb", {EmptyCommands})
  /\ observe = FALSE
  /\ sheet = EmptyCommands
  /\ liveCap = MaxTransports

NextRace ==
  \/ InitDbDone
  \/ ResumeInitDb
  \/ \E t \in GetValidCallers : DbReadDone(t)
  \/ \E t \in GetValidCallers : ResumeGetTok(t)
  \/ \E t \in GetValidCallers : ProviderRefreshDone(t)
  \/ \E t \in GetValidCallers : ResumeRefresh(t)
  \/ \E t \in GetValidCallers : DbUpdateDone(t)
  \/ \E t \in GetValidCallers : ResumeUpdate(t)
  \/ TimerFire(MaxCallbacks)
  \/ \E i \in Callbacks : ResumeDisc(i)
  \/ \E i \in Callbacks : ResumeConn(i)
  \/ ResumeMainConn
  \/ \E c \in Slots : ConnectOk(c)
  \/ \E c \in Slots : ConnectFail(c)
  \/ \E c \in Slots : Drop(c)
  \/ \E c \in Slots : SocketClose(c)
  \/ \E c \in Slots : CloseDone(c)
  \/ Wait

SpecRace == InitRace /\ [][NextRace]_vars

\* ---------------------------------------------------- onMessageHandler
\* the connected client delivers a chat message: the handler runs up to its await
onMessageHandler(user, context, msg) ==
  /\ Running /\ Quiet
  /\ client # NoClient /\ tstate[client] = "open"
  /\ LET idle == {k \in ChatHandlers : chat[k].pc = "idle"}
         isMod == context.badges.moderator
         subTier == getSubscriberTier(context.badges.subscriber)
     IN IF /\ startsWith(msg, <<"%">>)
           /\ canUseCommand(context.subscriber,
                            isBroadcaster(context.badges.broadcaster, user), isMod)
        THEN /\ idle # {}
             /\ chat' = [k \in ChatHandlers |->
                           IF k = Min(idle)
                           THEN [IdleChat EXCEPT !.pc = "upsert", !.user = user, !.msg = msg,
                                                 !.tier = subTier,
                                                 !.alone = (idle = ChatHandlers)]
                           ELSE IF chat[k].pc = "idle" THEN chat[k]
                           ELSE [chat[k] EXCEPT !.alone = FALSE]]
             /\ lastChat' = "can use command"
        ELSE /\ UNCHANGED chat
             /\ lastChat' = IF startsWith(msg, <<"%">>) THEN "not privileged" ELSE "no command"
  /\ UNCHANGED <<now, cfg, storeVars, poolEnding, issued, client, tstate, tcred,
                 reconnectAttempts, timers, task, microq, exited, histVars, authVars,
                 subscriber_commands, cachedRowsMap, sheetVars, liveCap>>

\* the INSERT ... ON CONFLICT of upsertCommand() is applied, or it fails and
\* the handler's catch logs the error
UpsertDone(k) ==
  /\ Running /\ Quiet
  /\ chat[k].pc = "upsert" /\ chat[k].wake = ""
  /\ \/ /\ ~poolEnding
        /\ subscriber_commands' =
             upsertCommand(subscriber_commands, chat[k].user, chat[k].msg, chat[k].tier)
        /\ chat' = [chat EXCEPT ![k].wake = "ok",
                                ![k].row = subscriber_commands'[chat[k].user]]
     \/ /\ chat' = [chat EXCEPT ![k] = IdleChat]
        /\ UNCHANGED subscriber_commands
  /\ UNCHANGED <<now, cfg, storeVars, poolEnding, issued, client, tstate, tcred,
                 reconnectAttempts, timers, task, microq, exited, histVars, authVars,
                 cachedRowsMap, lastChat, sheetVars, liveCap>>

\* appendRow() / updateRow() resume with the returned row:
\* cachedRowsMap.set(target, {value: result.message, tier: result.tier})
ResumeUpsert(k) ==
  /\ Running /\ Quiet
  /\ chat[k].pc = "upsert" /\ chat[k].wake = "ok"
  /\ cachedRowsMap' = cacheSet(cachedRowsMap, chat[k].user, chat[k].row)
  /\ chat' = [chat EXCEPT ![k] = IdleChat]
  /\ UNCHANGED <<now, cfg, storeVars, poolEnding, issued, client, tstate, tcred,
                 reconnectAttempts, timers, task, microq, exited, histVars, authVars,
                 subscriber_commands, lastChat, sheetVars, liveCap>>

\* if (msg.startsWith("%") && (subscriber || isBroadcaster || isMod))
writesCommand(user, context, msg) ==
  /\ startsWith(msg, <<"%">>)
  /\ canUseCommand(context.subscriber, isBroadcaster(context.badges.broadcaster, user),
                   context.badges.moderator)

\* the chat side: the stored credential is valid, the connection is made and
\* not lost, no SIGTERM arrives; an earlier run may have stored a command
StoredCommands ==
  {EmptyCommands,
   [EmptyCommands EXCEPT ![MaxChatters] = [message |-> <<"%", "a">>, tier |-> "1"]]}

InitChat ==
  /\ Started({[id |-> 1, username |-> BotUser, access_token |-> OldToken,
               refresh_token |-> OldToken, expires_at |-> 6 * Minute,
               scope |-> GrantedScope]},
             {[id |-> TRUE, secret |-> TRUE]}, "initdb", StoredCommands)
  /\ observe = FALSE
  /\ sheet = EmptyCommands
  /\ liveCap = MaxTransports

NextChat ==
  \/ InitDbDone
  \/ ResumeInitDb
  \/ DbReadDone(Main)
  \/ ResumeGetTok(Main)
  \/ ResumeMainConn
  \/ \E c \in Slots : ConnectOk(c)
  \/ \E user \in Chatters, context \in Contexts, msg \in Messages :
       /\ writesCommand(user, context, msg) =>
            Cardinality({k \in ChatHandlers : chat[k].pc # "idle"}) < MaxChat
       /\ onMessageHandler(user, context, msg)
  \/ \E k \in ChatHandlers : UpsertDone(k)
  \/ \E k \in ChatHandlers : ResumeUpsert(k)

SpecChat == InitChat /\ [][NextChat]_vars

\* the chat side with overlapping handlers: a message arrives while an earlier
\* one is suspended in upsertCommand()
NextOverlap ==
  \/ InitDbDone
  \/ ResumeInitDb
  \/ DbReadDone(Main)
  \/ ResumeGetTok(Main)
  \/ ResumeMainConn
  \/ \E c \in Slots : ConnectOk(c)
  \/ \E user \in Chatters, context \in Contexts, msg \in Messages :
       onMessageHandler(user, context, msg)
  \/ \E k \in ChatHandlers : UpsertDone(k)
  \/ \E k \in ChatHandlers : ResumeUpsert(k)

SpecOverlap == InitChat /\ [][NextOverlap]_vars

\* ------------------------------------- the Google-Sheets variant (part_001)
\* the changes syncCache() collects: a cached name the sheet lacks is added, a
\* cached name whose row differs in message or tier is updated
syncChanges(cache, rows) ==
  {[type |-> IF rows[u] = NoCommand THEN "add" ELSE "update",
    name |-> u, value |-> cache[u].value, tier |-> cache[u].tier] :
     u \in {v \in DOMAIN cache :
              /\ cache[v] # NoEntry
              /\ (\/ rows[v] = NoCommand
                  \/ rows[v].message # cache[v].value
                  \/ rows[v].tier # cache[v].tier)}}

\* main(): authenticateAndLoad() settles; cacheRows() has filled the Map from
\* the sheet (tier defaults to "1"), or the error is logged
SheetsLoadDone ==
  /\ Running
  /\ syncRun.pc = "load"
  /\ sheetCache' \in {cacheRows(sheetCache, sheet), sheetCache}
  /\ syncRun' = [pc |-> "idle", changes |-> {}]
  /\ UNCHANGED <<now, cfg, storeVars, poolEnding, issued, client, tstate, tcred,
                 reconnectAttempts, timers, task, microq, exited, histVars, authVars,
                 chatVars, needsSync, lastSyncTime, sheet,
                 liveCap>>

\* onMessageHandler of the variant: a subscriber's "%" message goes into the
\* Map and sets needsSync (the entry's row number is never read again)
SheetsMessage(user, context, msg) ==
  /\ Running
  /\ startsWith(msg, <<"%">>) /\ context.subscriber
  /\ sheetCache' = [sheetCache EXCEPT ![user] =
                      [value |-> msg, tier |-> getSubscriberTier(context.badges.subscriber)]]
  /\ needsSync' = TRUE
  /\ UNCHANGED <<now, cfg, storeVars, poolEnding, issued, client, tstate, tcred,
                 reconnectAttempts, timers, task, microq, exited, histVars, authVars,
                 chatVars, lastSyncTime, sheet, syncRun,
                 liveCap>>

\* setInterval(periodicSync, SYNC_INTERVAL) fires: syncCache() starts when
\* needsSync && Date.now() - lastSyncTime > SYNC_INTERVAL
periodicSync ==
  /\ Running
  /\ now < MaxSyncTicks * SYNC_INTERVAL
  /\ now' = now + SYNC_INTERVAL
  /\ syncRun.pc = "idle"
  /\ IF needsSync /\ now' - lastSyncTime > SYNC_INTERVAL
     THEN syncRun' = [pc |-> "getRows", changes |-> {}]
     ELSE UNCHANGED syncRun
  /\ UNCHANGED <<cfg, storeVars, poolEnding, issued, client, tstate, tcred,
                 reconnectAttempts, timers, task, microq, exited, histVars, authVars,
                 chatVars, needsSync, lastSyncTime, sheetCache, sheet,
                 liveCap>>

\* await sheet.getRows() resolves in syncCache(): the changes are collected
\* from the Map as it is now
SyncGetRowsDone ==
  /\ Running
  /\ syncRun.pc = "getRows"
  /\ syncRun' = [pc |-> "apply", changes |-> syncChanges(sheetCache, sheet)]
  /\ UNCHANGED <<now, cfg, storeVars, poolEnding, issued, client, tstate, tcred,
                 reconnectAttempts, timers, task, microq, exited, histVars, authVars,
                 chatVars, needsSync, lastSyncTime, sheetCache, sheet,
                 liveCap>>

\* await sheet.addRow(...) / await change.row.save() resolves for one change
SyncApplyDone ==
  /\ Running
  /\ syncRun.pc = "apply"
  /\ \E c \in syncRun.changes :
       /\ sheet' = [sheet EXCEPT ![c.name] = [message |-> c.value, tier |-> c.tier]]
       /\ syncRun' = [syncRun EXCEPT !.changes = @ \ {c}]
  /\ UNCHANGED <<now, cfg, storeVars, poolEnding, issued, client, tstate, tcred,
                 reconnectAttempts, timers, task, microq, exited, histVars, authVars,
                 chatVars, needsSync, lastSyncTime, sheetCache,
                 liveCap>>

\* every change is processed: needsSync = false; syncCache() returns and
\* periodicSync sets lastSyncTime = Date.now()
SyncFinish ==
  /\ Running
  /\ syncRun.pc = "apply" /\ syncRun.changes = {}
  /\ needsSync' = FALSE
  /\ lastSyncTime' = now
  /\ syncRun' = [pc |-> "idle", changes |-> {}]
  /\ UNCHANGED <<now, cfg, storeVars, poolEnding, issued, client, tstate, tcred,
                 reconnectAttempts, timers, task, microq, exited, histVars, authVars,
                 chatVars, sheetCache, sheet,
                 liveCap>>

\* the variant on its own: the sheet operations succeed, a syncCache() run
\* ends before the interval fires again, no SIGTERM arrives
InitSheets ==
  /\ Started({NoRow}, {[id |-> FALSE, secret |-> FALSE]}, "done", {EmptyCommands})
  /\ observe = FALSE
  /\ sheet \in StoredCommands
  /\ liveCap = MaxTransports

NextSheets ==
  \/ SheetsLoadDone
  \/ \E user \in Chatters, context \in Contexts, msg \in Messages :
       SheetsMessage(user, context, msg)
  \/ periodicSync
  \/ SyncGetRowsDone
  \/ SyncApplyDone
  \/ SyncFinish

SpecSheets == InitSheets /\ [][NextSheets]_vars

\* the supervisor alone, with the history counters recorded: the stored
\* credential stays valid and no SIGTERM arrives
InitSup ==
  /\ Started({[id |-> 1, username |-> BotUser, access_token |-> OldToken,
               refresh_token |-> OldToken, expires_at |-> 6 * Minute,
               scope |-> GrantedScope]},
             {[id |-> TRUE, secret |-> TRUE]}, "initdb", {EmptyCommands})
  /\ observe = TRUE
  /\ sheet = EmptyCommands
  /\ liveCap = MaxTransports

NextSup ==
  \/ InitDbDone
  \/ ResumeInitDb
  \/ \E t \in GetValidCallers : DbReadDone(t)
  \/ \E t \in GetValidCallers : ResumeGetTok(t)
  \/ TimerFire(MaxOverlap)
  \/ \E i \in Callbacks : ResumeDisc(i)
  \/ \E i \in Callbacks : ResumeConn(i)
  \/ ResumeMainConn
  \/ \E c \in Slots : ConnectOk(c)
  \/ \E c \in Slots : ConnectFail(c)
  \/ \E c \in Slots : Drop(c)
  \/ \E c \in Slots : SocketClose(c)
  \/ \E c \in Slots : CloseDone(c)

SpecSup == InitSup /\ [][NextSup]_vars

\* ------------------------------------------------------ GET /auth/status
\* an answer that never reports an expired credential
statusResponse_NeverExpired(tokenData, t) ==
  IF tokenData = NoRow THEN [NoStatus EXCEPT !.status = 200]
  ELSE [status |-> 200, authenticated |-> TRUE, username |-> tokenData.username,
        expires_at |-> tokenData.expires_at, is_expired |-> FALSE,
        scope |-> tokenData.scope]

\* the JSON answer built from the row getTwitchToken() returned
statusResponse(tokenData, t) ==
  IF tokenData = NoRow THEN [NoStatus EXCEPT !.status = 200]
  ELSE [status |-> 200, authenticated |-> TRUE, username |-> tokenData.username,
        expires_at |-> tokenData.expires_at,
        is_expired |-> isTokenExpired(tokenData.expires_at, t),
        scope |-> tokenData.scope]

\* the handler, from the reply of its SELECT to its answer: the row read, or
\* the catch block answering 500 when the query failed
AuthStatus ==
  /\ Running /\ Quiet
  /\ \/ /\ ~poolEnding
        /\ lastStatus' = statusResponse(getTwitchToken(tokens), now)
     \/ lastStatus' = [NoStatus EXCEPT !.status = 500]
  /\ UNCHANGED <<now, cfg, storeVars, poolEnding, issued, client, tstate, tcred,
                 reconnectAttempts, timers, task, microq, exited, histVars,
                 oauthStates, nextState, http, consumed, lastCallback, lastInitiate,
                 chatVars, sheetVars, liveCap>>

\* status requests while main() starts, refreshes and connects, time passes
\* and authorization requests register states; no SIGTERM arrives
InitStatus ==
  /\ Started(InitialRows, {[id |-> TRUE, secret |-> TRUE]}, "initdb", {EmptyCommands})
  /\ observe = FALSE
  /\ sheet = EmptyCommands
  /\ liveCap = MaxTransports

NextStatus ==
  \/ InitDbDone
  \/ ResumeInitDb
  \/ DbReadDone(Main)
  \/ ResumeGetTok(Main)
  \/ ProviderRefreshDone(Main)
  \/ ResumeRefresh(Main)
  \/ DbUpdateDone(Main)
  \/ ResumeUpdate(Main)
  \/ ResumeMainConn
  \/ \E c \in Slots : ConnectOk(c)
  \/ Tick
  \/ AuthInitiate
  \/ AuthStatus

SpecStatus == InitStatus /\ [][NextStatus]_vars

\* ------------------------------ the supervisor of bot.js (a static client)
\* bot.js creates one tmi client when the module loads and reconnects it: the
\* timer callback is synchronous, client.connect(); reconnectAttempts++
StaticClient == 1

\* a main() that connects whether or not authenticateAndLoad() threw
StaticResumeInitDb_IgnoreError ==
  /\ Ready(Main, "initdb")
  /\ client' = StaticClient
  /\ tstate' = [tstate EXCEPT ![StaticClient] = "connecting"]
  /\ task' = [task EXCEPT ![Main] = [IdleTask EXCEPT !.pc = "conn", !.rt = StaticClient]]
  /\ microq' = Tail(microq)
  /\ UNCHANGED <<now, cfg, storeVars, poolEnding, issued, tcred, reconnectAttempts,
                 timers, exited, histVars, authVars, chatVars, sheetVars, liveCap>>

\* main(): authenticateAndLoad() settled; await client.connect(), or the catch
StaticResumeInitDb ==
  /\ Ready(Main, "initdb")
  /\ IF task[Main].wake = "ok"
     THEN /\ client' = StaticClient
          /\ tstate' = [tstate EXCEPT ![StaticClient] = "connecting"]
          /\ task' = [task EXCEPT ![Main] = [IdleTask EXCEPT !.pc = "conn",
                                                             !.rt = StaticClient]]
          /\ UNCHANGED exited
     ELSE /\ task' = [task EXCEPT ![Main] = [IdleTask EXCEPT !.pc = "done"]]
          /\ exited' = "1"
          /\ UNCHANGED <<client, tstate>>
  /\ microq' = Tail(microq)
  /\ UNCHANGED <<now, cfg, storeVars, poolEnding, issued, tcred, reconnectAttempts,
                 timers, histVars, authVars, chatVars, sheetVars, liveCap>>

\* a reconnection timer fires: client.connect() opens a socket (the promise it
\* returns is dropped) and the counter is incremented in the same callback
StaticTimerFire ==
  /\ Running /\ Quiet
  /\ timers > 0
  /\ reconnectAttempts < CountCap
  /\ timers' = timers - 1
  /\ tstate' = [tstate EXCEPT ![StaticClient] = "connecting"]
  /\ reconnectAttempts' = reconnectAttempts + 1
  /\ attemptsSinceConnected' = Bump(attemptsSinceConnected)
  /\ UNCHANGED <<now, cfg, storeVars, poolEnding, issued, client, tcred, task, microq,
                 exited, disconnectsSinceConnected, lateConstruct, lastRefresh,
                 lastCheck, observe, authVars, chatVars, sheetVars, liveCap>>

\* the 'disconnected' handler of bot.js runs once
StaticDisconnected ==
  /\ reconnectAttempts >= MAX_RECONNECT_ATTEMPTS \/ timers < MaxPending
  /\ timers' = onDisconnected(reconnectAttempts, timers)
  /\ disconnectsSinceConnected' = Bump(disconnectsSinceConnected)

\* the socket fails while connecting: 'disconnected' is emitted and connect()
\* rejects; main() catches the rejection of its own call, the rejection of a
\* timer callback's call is unhandled, which ends the process or only warns,
\* depending on the Node.js version
StaticConnectFail ==
  /\ Running /\ Quiet
  /\ tstate[StaticClient] = "connecting"
  /\ \E nxt \in {"errored", "closed"} : tstate' = [tstate EXCEPT ![StaticClient] = nxt]
  /\ task' = Wake(task, ConnWaiters(StaticClient), "err", "connect")
  /\ \E s \in Orderings(ConnWaiters(StaticClient)) : microq' = microq \o s
  /\ IF ConnWaiters(StaticClient) = {} THEN exited' \in {exited, "1"} ELSE UNCHANGED exited
  /\ StaticDisconnected
  /\ UNCHANGED <<now, cfg, storeVars, poolEnding, issued, client, tcred,
                 reconnectAttempts, attemptsSinceConnected, lateConstruct,
                 lastRefresh, lastCheck, observe, authVars, chatVars, sheetVars, liveCap>>

\* the open connection of the static client is lost
StaticDrop ==
  /\ Running /\ Quiet
  /\ tstate[StaticClient] = "open"
  /\ \E nxt \in {"errored", "closed"} : tstate' = [tstate EXCEPT ![StaticClient] = nxt]
  /\ StaticDisconnected
  /\ UNCHANGED <<now, cfg, storeVars, poolEnding, issued, client, tcred,
                 reconnectAttempts, task, microq, exited, attemptsSinceConnected,
                 lateConstruct, lastRefresh, lastCheck, observe, authVars, chatVars,
                 sheetVars, liveCap>>

\* the close event of a socket that already reported an error
StaticSocketClose ==
  /\ Running /\ Quiet
  /\ tstate[StaticClient] = "errored"
  /\ tstate' = [tstate EXCEPT ![StaticClient] = "closed"]
  /\ StaticDisconnected
  /\ UNCHANGED <<now, cfg, storeVars, poolEnding, issued, client, tcred,
                 reconnectAttempts, task, microq, exited, attemptsSinceConnected,
                 lateConstruct, lastRefresh, lastCheck, observe, authVars, chatVars,
                 sheetVars, liveCap>>

InitStatic ==
  /\ Started({NoRow}, {[id |-> TRUE, secret |-> TRUE]}, "initdb", StoredCommands)
  /\ observe = TRUE
  /\ sheet = EmptyCommands
  /\ liveCap = MaxTransports

NextStatic ==
  \/ InitDbDone
  \/ StaticResumeInitDb
  \/ ResumeMainConn
  \/ ConnectOk(StaticClient)
  \/ StaticConnectFail
  \/ StaticDrop
  \/ StaticSocketClose
  \/ StaticTimerFire

SpecStatic == InitStatic /\ [][NextStatic]_vars

\* the supervisor with overlapping reconnection callbacks and room for the
\* tmi clients they build: the stored credential stays valid and no SIGTERM
\* arrives
InitLive ==
  /\ Started({[id |-> 1, username |-> BotUser, access_token |-> OldToken,
               refresh_token |-> OldToken, expires_at |-> 6 * Minute,
               scope |-> GrantedScope]},
             {[id |-> TRUE, secret |-> TRUE]}, "initdb", {EmptyCommands})
  /\ observe = FALSE
  /\ sheet = EmptyCommands
  /\ liveCap = MaxTransports + MaxSpare

NextLive ==
  \/ InitDbDone
  \/ ResumeInitDb
  \/ \E t \in GetValidCallers : DbReadDone(t)
  \/ \E t \in GetValidCallers : ResumeGetTok(t)
  \/ TimerFire(MaxCallbacks)
  \/ \E i \in Callbacks : ResumeDisc(i)
  \/ \E i \in Callbacks : ResumeConn(i)
  \/ ResumeMainConn
  \/ \E c \in Slots : ConnectOk(c)
  \/ \E c \in Slots : ConnectFail(c)
  \/ \E c \in Slots : Drop(c)
  \/ \E c \in Slots : SocketClose(c)
  \/ \E c \in Slots : CloseDone(c)

SpecLive == InitLive /\ [][NextLive]_vars

\* =================================================================== claims

\* C1: the reconnection attempts made since the most recent 'connected' event
\* never exceed MAX_RECONNECT_ATTEMPTS.
C1_AttemptsWithinBudget == attemptsSinceConnected <= MAX_RECONNECT_ATTEMPTS

\* C2: once five 'disconnected' events have been delivered with no 'connected'
\* event in between, the supervisor has given up: no later 'disconnected'
\* event schedules a reconnection timer.
C2_GivenUpAfterFive ==
  [][disconnectsSinceConnected >= MAX_RECONNECT_ATTEMPTS => timers' <= timers]_vars

\* C3: when the current client is connected and the supervisor is quiescent (no
\* continuation pending, no reconnection callback in flight, no timer pending),
\* reconnectAttempts is zero.
C3_ResetOnConnect ==
  (client # NoClient /\ tstate[client] = "open" /\ Quiet /\ InFlight = {} /\ timers = 0)
    => reconnectAttempts = 0

\* C4: between macrotasks, at most one reconnection is under way: pending
\* timers plus reconnection callbacks in flight number at most one.
C4_OneReconnectAtATime == Quiet => timers + Cardinality(InFlight) <= 1

\* C5: once the SIGTERM handler has begun, no reconnection callback constructs
\* a transport or calls connect().
C5_NoConstructAfterStop == ~lateConstruct

\* C6: isTokenExpired answers true exactly when expires_at is null or at most
\* five minutes after now (the boundary included).
C6_ExpiredWithinMargin ==
  lastCheck.valid =>
    (lastCheck.result <=> (lastCheck.expires_at = NullTime
                           \/ lastCheck.expires_at <= lastCheck.at + 5 * Minute))

\* C7: when getValidToken refreshes a credential read with refresh token R and
\* the provider's response carries no refresh token, the persisted record and
\* the returned credential both hold R; when the response carries one, both
\* hold the new one.
C7_RefreshTokenPreserved ==
  lastRefresh.valid =>
    LET expected == IF lastRefresh.provided = NullRefresh
                    THEN lastRefresh.read.refresh_token ELSE lastRefresh.provided
    IN /\ lastRefresh.persisted.refresh_token = expected
       /\ lastRefresh.returned.refresh_token = expected
C7_Witness ==
  /\ lastRefresh.valid
  /\ lastRefresh.provided = NullRefresh
  /\ lastRefresh.read.refresh_token # NullRefresh
  /\ lastRefresh.persisted.access_token # lastRefresh.read.access_token

\* C8: when getValidToken returns from a refresh, the store already holds the
\* provider's access token with expires_at = (time the refresh completed) +
\* expires_in seconds, and the returned credential equals the persisted record
\* in username, access token, refresh token and expiry; when the write fails,
\* getValidToken fails and its caller builds no transport.
C8_PersistedRecordMatches ==
  lastRefresh.valid =>
    /\ lastRefresh.persisted.id # 0
    /\ lastRefresh.persisted.access_token = lastRefresh.access
    /\ lastRefresh.persisted.expires_at = lastRefresh.at + lastRefresh.expires_in * 1000
    /\ lastRefresh.returned.username = lastRefresh.persisted.username
    /\ lastRefresh.returned.access_token = lastRefresh.persisted.access_token
    /\ lastRefresh.returned.refresh_token = lastRefresh.persisted.refresh_token
    /\ lastRefresh.returned.expires_at = lastRefresh.persisted.expires_at
C8_FailedWriteFails ==
  \A t \in GetValidCallers :
    (Ready(t, "update") /\ task[t].wake = "err" /\ task'[t] # task[t])
      => /\ task'[t].pc \in {"idle", "done"}
         /\ UNCHANGED <<client, tstate, tcred, tokens, lastRefresh>>
C8_RefreshPersistedBeforeReturn ==
  [](C8_PersistedRecordMatches) /\ [][C8_FailedWriteFails]_vars
C8_Witness ==
  /\ lastRefresh.valid
  /\ lastRefresh.read.expires_at # NullTime
  /\ lastRefresh.persisted.expires_at = lastRefresh.at + 360 * 1000
  /\ lastRefresh.at > 0

\* C9: a state value that passed validation is never registered again, and a
\* callback that presents it afterwards is rejected as an unregistered state
\* is (before the exchange: no provider call, nothing persisted), whatever
\* became of the first callback's exchange.
C9_ConsumedStaysAbsent == \A s \in consumed : oauthStates[s] = NullTime
C9_ReplayRejected ==
  \A error, code \in BOOLEAN, state \in StateVals :
    (state \in consumed /\ AuthCallback(error, code, state))
      => /\ lastCallback'.verdict # "accepted"
         /\ (~error /\ code) => lastCallback'.verdict = "invalid_state"
         /\ UNCHANGED <<tokens, nextId, http, issued, oauthStates>>
C9_StateIsSingleUse == [](C9_ConsumedStaysAbsent) /\ [][C9_ReplayRejected]_vars
C9_Witness ==
  /\ lastCallback.replay
  /\ lastCallback.verdict = "invalid_state"
  /\ \E h \in Handlers : http[h].pc # "idle"

\* C10: a callback rejected before the exchange (provider error, missing code,
\* missing state, unregistered state) starts no provider call, leaves the
\* credential store unchanged and leaves the state set unchanged.
C10_RejectedCallbackInert ==
  [][\A error, code \in BOOLEAN, state \in {NoState} \cup StateVals :
       (/\ AuthCallback(error, code, state)
        /\ (error \/ ~code \/ state = NoState \/ oauthStates[state] = NullTime))
         => /\ lastCallback'.verdict \in {"provider_error", "missing", "invalid_state"}
            /\ UNCHANGED <<tokens, nextId, http, issued, oauthStates, consumed>>]_vars
C10_Witness ==
  /\ lastCallback.verdict = "provider_error"
  /\ \E s \in StateVals : oauthStates[s] # NullTime

\* C11: right after every GET /auth/twitch, whatever its outcome (the request
\* refused because TWITCH_CLIENT_ID is not set included), no registered state
\* was issued more than ten minutes before the request, consumed or not.
C11_NoStaleStateAfterInitiate ==
  [][AuthInitiate =>
       \A s \in StateVals :
         oauthStates'[s] # NullTime => oauthStates'[s] >= now - 10 * Minute]_vars
C11_Witness ==
  /\ lastInitiate = "redirected"
  /\ \E s \in StateVals : /\ s < nextState
                           /\ s \notin consumed
                           /\ oauthStates[s] = NullTime
  /\ \E s \in StateVals : oauthStates[s] = now

\* C12: when getTwitchToken() finds no row, getValidToken() returns null: the
\* caller ends without an error (main() does not exit), the provider is not
\* called and the credential store is not written.
C12_NullWithoutSideEffects ==
  [][\A t \in GetValidCallers :
       (/\ Ready(t, "getTok") /\ task[t].wake = "ok" /\ task[t].tok = NoRow
        /\ ResumeGetTok(t))
         => /\ task'[t].pc \in {"done", "idle"}
            /\ UNCHANGED <<tokens, nextId, issued, exited, client, tstate, tcred>>]_vars
C12_Witness ==
  /\ lastCheck.none
  /\ task[Main].pc = "done"
  /\ Running /\ client = NoClient /\ issued = 0
  /\ getTwitchToken(tokens) = NoRow

C14_RefreshErrorKeepsProcessAlive ==
  [][(\/ /\ Ready(Main, "getTok") /\ task[Main].wake = "ok" /\ task[Main].tok # NoRow
         /\ isTokenExpired(task[Main].tok.expires_at, now)
         /\ (task[Main].tok.refresh_token = NullRefresh \/ ~cfg.id \/ ~cfg.secret)
         /\ ResumeGetTok(Main)
      \/ /\ Ready(Main, "refresh") /\ task[Main].wake = "err"
         /\ task[Main].err \in {"refresh_rejected", "refresh_rejected_token"}
         /\ ResumeRefresh(Main))
       => exited' = "no"]_vars

\* C15: once main() has returned for want of a credential and a callback has
\* persisted a valid one, the supervisor builds the client and connects.  As
\* a final result: when nothing is left to run (main() has returned, no
\* handler, reconnection callback, timer or continuation is pending, no
\* client exists that could emit an event) and the store holds a valid
\* credential, a client has been built.
C15_ConnectsAfterAuthorization ==
  (/\ Running /\ Quiet
   /\ task[Main].pc = "done" /\ InFlight = {} /\ timers = 0
   /\ \A h \in Handlers : http[h].pc = "idle"
   /\ \A c \in Slots : tstate[c] = "none"
   /\ getTwitchToken(tokens) # NoRow
   /\ ~isTokenExpired(getTwitchToken(tokens).expires_at, now))
    => client # NoClient

\* C16: a reconnection attempt that fails is retried until the budget is
\* exhausted: once a 'disconnected' event has been delivered, the supervisor
\* never comes to rest (nothing queued, no callback in flight, no timer
\* pending, every socket closed for good) with reconnectAttempts below
\* MAX_RECONNECT_ATTEMPTS.
C16_NeverStuckDisconnected ==
  (/\ Running /\ Quiet /\ InFlight = {} /\ task[Main].pc = "done"
   /\ client # NoClient
   /\ \A c \in Slots : tstate[c] \in {"none", "closed"}
   /\ disconnectsSinceConnected > 0
   /\ timers = 0)
    => reconnectAttempts >= MAX_RECONNECT_ATTEMPTS

\* C17: the store holds one record per identity under saveTwitchToken and
\* updateTwitchToken: a save that changes the table writes the handler's access
\* token, refresh token, expiry and scope into the record of its username,
\* keeps that record's id when it existed, adds no other record and touches no
\* other record; a refresh's UPDATE leaves the set of records as it was; and
\* no two records share an id.
C17_UpsertByUsername ==
  [][/\ \A h \in Handlers :
          (http[h].pc = "save" /\ SaveDone(h) /\ tokens' # tokens) =>
            LET u == http[h].login IN
              /\ tokens'[u].access_token = http[h].access_token
              /\ tokens'[u].refresh_token = http[h].refresh_token
              /\ tokens'[u].expires_at = http[h].exp
              /\ tokens'[u].scope = http[h].scope
              /\ tokens[u].id # 0 => tokens'[u].id = tokens[u].id
              /\ Records(tokens') = Records(tokens) \cup {u}
              /\ \A v \in Usernames \ {u} : tokens'[v] = tokens[v]
     /\ \A t \in GetValidCallers :
          (Waiting(t, "update") /\ DbUpdateDone(t)) => Records(tokens') = Records(tokens)
     /\ \A u, v \in Records(tokens') : tokens'[u].id = tokens'[v].id => u = v]_vars
\* a record main() refreshed has then been overwritten by a re-authorization of
\* the same username that carried no refresh token
C17_Witness ==
  /\ Records(tokens) = {BotUser}
  /\ tokens[BotUser].id = 1
  /\ lastRefresh.valid /\ lastRefresh.persisted.access_token = NewToken(0)
  /\ tokens[BotUser].access_token = NewToken(1)
  /\ tokens[BotUser].refresh_token = NullRefresh
  /\ nextId = 3

\* C18: a step that starts a write or changes the command store or the cache
\* is never the handling of a message that does not start with "%", nor of a
\* message whose sender is neither subscriber, broadcaster nor moderator; and
\* once the cache is loaded, an entry of the store or of the cache changes only
\* while a handler of a "%" message of that entry's own name awaits its upsert.
C18_OnlyPrivilegedCommandsWrite ==
  [][(\/ subscriber_commands' # subscriber_commands
      \/ cachedRowsMap' # cachedRowsMap
      \/ chat' # chat) =>
       /\ \A user \in Chatters, context \in Contexts, msg \in Messages :
             ~(/\ msg[1] = "%"
               /\ (\/ context.subscriber
                   \/ context.badges.broadcaster \/ user = Channel
                   \/ context.badges.moderator))
               => ~onMessageHandler(user, context, msg)
       /\ task[Main].pc # "initdb" =>
            \A u \in Chatters :
              (\/ subscriber_commands'[u] # subscriber_commands[u]
               \/ cachedRowsMap'[u] # cachedRowsMap[u])
                => \E k \in ChatHandlers :
                     chat[k].pc = "upsert" /\ chat[k].user = u /\ chat[k].msg[1] = "%"]_vars
\* the broadcaster's entry was written from a message sent with a tier-3
\* badge, the cache follows the store, the last message was a "%" message of a
\* sender without privilege, and the other names have no entry
C18_Witness ==
  /\ lastChat = "not privileged"
  /\ subscriber_commands[Channel] = [message |-> <<"%", "a">>, tier |-> "3"]
  /\ cachedRowsMap[Channel] = [value |-> <<"%", "a">>, tier |-> "3"]
  /\ \A u \in Chatters \ {Channel} :
       subscriber_commands[u] = NoCommand /\ cachedRowsMap[u] = NoEntry

\* C19: when client.disconnect() rejects in the SIGTERM handler, the error is
\* suppressed: the handler goes on to pool.end() and does not exit with a
\* failure code.
C19_CloseErrorSuppressed ==
  [][(Ready(Sig, "disc") /\ task[Sig].wake = "err" /\ ResumeSigDisc)
       => (poolEnding' /\ exited' # "1")]_vars

\* C20: refreshes that overlap leave the store with the newest credential:
\* the provider's token values are numbered in the order of issue, and no
\* write replaces a stored access token by one issued earlier.
C20_NewerPairNotReplaced ==
  [][\A u \in Usernames : tokens'[u].access_token >= tokens[u].access_token]_vars

\* C21: every cached "%" message reaches the sheet: when no syncCache() run is
\* in progress and needsSync is false, so that periodicSync returns at once
\* however often the interval fires, the sheet row of every cached name
\* equals its cache entry.
C21_NothingLeftUnsynced ==
  (syncRun.pc = "idle" /\ ~needsSync) =>
    \A u \in Chatters :
      sheetCache[u] # NoEntry =>
        (sheet[u].message = sheetCache[u].value /\ sheet[u].tier = sheetCache[u].tier)

\* C22: every reconnection-timer callback that runs adds one to
\* reconnectAttempts, whether it succeeds or fails: when no callback is in
\* flight, reconnectAttempts is at least the number of callbacks that built a
\* transport since the most recent 'connected' event.
C22_EveryAttemptCounted ==
  (Quiet /\ InFlight = {}) => reconnectAttempts >= attemptsSinceConnected

\* C23: in every reachable state, whatever the interleaving of 'disconnected'
\* events, timer firings and 'connected' events, the counter stays within
\* 0 .. MAX_RECONNECT_ATTEMPTS.
C23_CounterWithinBounds ==
  0 <= reconnectAttempts /\ reconnectAttempts <= MAX_RECONNECT_ATTEMPTS

\* C24: every construction of a tmi client happens in the continuation of the
\* constructing task's own getValidToken() call (directly, or after the
\* awaited client.disconnect()), with the username and access token that call
\* returned; the credential returned was refreshed by the call or was not
\* expired (expires_at more than five minutes ahead) when the call returned;
\* a call that returns null or throws constructs nothing.
C24_ConstructsFromOwnCredential ==
  [][\A t \in GetValidCallers :
       (microq # <<>> /\ Head(microq) = t) =>
         LET refreshed == refreshResult(task[t].data, task[t].tok.refresh_token)
             fresh == /\ task[t].pc = "getTok" /\ task[t].wake = "ok"
                      /\ task[t].tok # NoRow
                      /\ task[t].tok.expires_at # NullTime
                      /\ task[t].tok.expires_at > now + 5 * Minute
             renewed == task[t].pc = "update" /\ task[t].wake = "ok"
             returned == IF renewed
                         THEN [username |-> task[t].tok.username,
                               access_token |-> refreshed.access_token]
                         ELSE [username |-> task[t].tok.username,
                               access_token |-> task[t].tok.access_token]
             built == {c \in Slots : tstate[c] # "connecting" /\ tstate'[c] = "connecting"}
         IN /\ built # {} =>
                 /\ fresh \/ renewed \/ task[t].pc = "disc"
                 /\ \A c \in built : tcred'[c] = returned
            /\ (task[t].pc # "disc" /\ task'[t].pc = "disc") =>
                 /\ fresh \/ renewed
                 /\ task'[t].tok.username = returned.username
                 /\ task'[t].tok.access_token = returned.access_token]_vars

\* C25: a callback carrying a registered state consumes the state at once and
\* for good; the store is written only by a handler whose exchange and then
\* whose validate succeeded, with the token of the one and the login of the
\* other; a handler whose exchange or validate fails, or a server without
\* client id or secret, leaves the store as it was.
C25_PersistedOnlyAfterExchangeAndValidate ==
  [][/\ tokens' # tokens =>
          \E h \in Handlers :
            /\ http[h].pc = "save" /\ http'[h].pc = "idle"
            /\ tokens'[http[h].login].access_token = http[h].access_token
            /\ \A u \in Usernames \ {http[h].login} : tokens'[u] = tokens[u]
     /\ \A h \in Handlers :
          /\ (http[h].pc # "save" /\ http'[h].pc = "save") =>
               (http[h].pc = "validate" /\ http'[h].access_token = http[h].access_token)
          /\ (http[h].pc # "validate" /\ http'[h].pc = "validate") => http[h].pc = "exch"
          /\ (http[h].pc # "exch" /\ http'[h].pc = "exch") =>
               (http[h].pc = "idle" /\ consumed' # consumed /\ cfg.id /\ cfg.secret)
          /\ (http[h].pc \in {"exch", "validate"} /\ http'[h].pc = "idle") =>
               tokens' = tokens
     /\ consumed' # consumed =>
          /\ \A s \in consumed' \ consumed : oauthStates[s] # NullTime
          /\ tokens' = tokens
          /\ (~cfg.id \/ ~cfg.secret) => http' = http
     /\ \A s \in consumed' : oauthStates'[s] = NullTime]_vars

C25_Witness ==
  /\ lastCallback.verdict = "accepted"
  /\ consumed # {}
  /\ \A s \in consumed : oauthStates[s] = NullTime
  /\ issued > 0
  /\ \A h \in Handlers : http[h].pc = "idle"
  /\ \A u \in Usernames : tokens[u] = NoRow

\* C26: main() calls client.connect() for the first time only in the
\* continuation of a fulfilled authenticateAndLoad(), that is after
\* initDatabase() succeeded and cacheRows() ran; when authenticateAndLoad()
\* rejects, the process exits with code 1 and connect() is never called.
C26_ConnectAfterDatabaseReady ==
  [][/\ (tstate[StaticClient] = "none" /\ tstate'[StaticClient] # "none") =>
          /\ Ready(Main, "initdb") /\ task[Main].wake = "ok"
          /\ cachedRowsMap \in {EmptyCache, cacheRows(EmptyCache, subscriber_commands)}
     /\ (Ready(Main, "initdb") /\ task[Main].wake = "err") =>
          (exited' = "1" /\ tstate'[StaticClient] = "none")
     /\ (client' = NoClient /\ task'[Main].pc = "done") => tstate'[StaticClient] = "none"]_vars

C26_Witness ==
  /\ task[Main].pc = "conn"
  /\ tstate[StaticClient] = "connecting"
  /\ cachedRowsMap # EmptyCache

\* C27: the cache is written by a message handler only after its upsert
\* succeeded, and the entry of the sender becomes the message and tier of the
\* returned row; a failed upsert leaves the cache as it was and the handler
\* ends without stopping the process; a handler that ran with no other handler
\* in flight leaves the sender's cache entry equal to the stored row.
C27_CacheFollowsSuccessfulUpsert ==
  [][/\ (cachedRowsMap' # cachedRowsMap /\ task[Main].pc # "initdb") =>
          \E k \in ChatHandlers :
            /\ chat[k].pc = "upsert" /\ chat[k].wake = "ok" /\ chat'[k].pc = "idle"
            /\ cachedRowsMap'[chat[k].user] =
                 [value |-> chat[k].row.message, tier |-> chat[k].row.tier]
            /\ \A u \in Chatters \ {chat[k].user} : cachedRowsMap'[u] = cachedRowsMap[u]
            /\ chat[k].alone =>
                 /\ subscriber_commands'[chat[k].user].message =
                      cachedRowsMap'[chat[k].user].value
                 /\ subscriber_commands'[chat[k].user].tier =
                      cachedRowsMap'[chat[k].user].tier
     /\ \A k \in ChatHandlers :
          /\ (chat[k].pc = "upsert" /\ chat[k].wake = "" /\ chat'[k].wake = "ok") =>
               chat'[k].row = [message |-> chat[k].msg, tier |-> chat[k].tier]
          /\ (chat[k].pc = "upsert" /\ chat[k].wake = "" /\ chat'[k].pc = "idle") =>
               /\ cachedRowsMap' = cachedRowsMap
               /\ subscriber_commands' = subscriber_commands
               /\ exited' = exited]_vars

\* a handler has written the cache from the tier-3 row its upsert returned
C27_Witness ==
  /\ \E u \in Chatters :
       /\ cachedRowsMap[u] # NoEntry
       /\ cachedRowsMap[u].tier = "3"
       /\ subscriber_commands[u] = [message |-> cachedRowsMap[u].value, tier |-> "3"]
  /\ \A k \in ChatHandlers : chat[k].pc = "idle"
  /\ lastChat = "can use command"

C29_ExpiredStateRejected ==
  [][\A s \in consumed' \ consumed : now - oauthStates[s] <= 10 * Minute]_vars

\* C30: when a callback handler has persisted its credential, the row that
\* getTwitchToken() returns (the one getValidToken() and the status endpoint
\* treat as current) is the row just persisted, whichever usernames were
\* authorized before.
C30_LatestAuthorizationIsCurrent ==
  [][\A h \in Handlers :
       (http[h].pc = "save" /\ http'[h].pc = "idle" /\ tokens' # tokens) =>
         /\ getTwitchToken(tokens').username = http[h].login
         /\ getTwitchToken(tokens').access_token = http[h].access_token]_vars

\* C31: at most one tmi client is connecting or connected at any time, and it
\* is the one `client` refers to.
C31_OneLiveTransport ==
  \A c \in Slots : tstate[c] \in {"connecting", "open"} => c = client

\* C32: once every message handler has completed, overlapping or not, each
\* cache entry equals the row stored for that user.
C32_CacheEqualsStoreAfterOverlap ==
  (\A k \in ChatHandlers : chat[k].pc = "idle") =>
    \A u \in Chatters :
      cachedRowsMap[u] # NoEntry =>
        /\ subscriber_commands[u].message = cachedRowsMap[u].value
        /\ subscriber_commands[u].tier = cachedRowsMap[u].tier

====
